---- MODULE Spec2Model ----
(***************************************************************************)
(* A model of src/python/sys_monitor.py: the process ranker                *)
(* (top_processes), the GPU backend resolver (get_gpu_info) and the        *)
(* scheduler (main).  Each component has its own specification; the        *)
(* variables of the other components stay at their initial values.         *)
(***************************************************************************)
EXTENDS Integers, Sequences, FiniteSets, TLC

VARIABLES
    \* ---- top_processes ----
    scenario,   \* "small": full nondeterminism; "large": a table longer than TopN
    n,          \* the requested count (parameter n of top_processes)
    alive,      \* pids in the process table now
    exited,     \* pids that have left the process table
    tpPc,       \* position inside top_processes
    iter,       \* pids process_iter still has to visit in the current pass
    procs,      \* the local list procs
    result,     \* the returned list procs[:n]
    seen1,      \* pids process_iter yielded in the first pass
    seen2,      \* pids process_iter yielded in the second pass
    failed2,    \* pids whose read raised in the second pass
    cpu2,       \* pids whose item was given a second-pass cpu_percent
    \* ---- get_gpu_info ----
    nvidiaPath, \* shutil.which("nvidia-smi") found the tool
    GPUtil,     \* the optional module was imported (GPUtil is not None)
    gpuPc,      \* position inside get_gpu_info
    stdout,     \* result.stdout.strip().splitlines(), each line split on ","
    lineIdx,    \* the line the parsing loop is at
    gpus,       \* the local list gpus of the nvidia-smi branch
    devices,    \* what GPUtil.getGPUs() returned (None: it did not return)
    attempts,   \* the backends invoked so far, in order
    errors,     \* the backends whose invocation or parsing raised
    gpuResult,  \* the returned value
    \* ---- main ----
    once,       \* args.once
    argInterval,\* args.interval (0 when the option is not given)
    quiet,      \* args.quiet
    jsonArg,    \* args.json is a path
    csvArg,     \* args.csv is a path
    pc,         \* position inside main
    interval,   \* the local interval of line 370 (0: not computed yet)
    tick,       \* collect_metrics calls started
    metrics,    \* the snapshot held in metrics, named by its tick (0: none)
    printed,    \* snapshots print_table has rendered, in order
    jsonFile,   \* the JSON file: None, or the snapshot in it and whether it is whole
    nJson,      \* write_json calls completed
    csvFile,    \* the CSV file: whether it exists, and its lines
    exists,     \* the local exists of append_csv
    sleeps,     \* durations of the time.sleep calls completed
    stoppedAt,  \* where a KeyboardInterrupt was raised ("none": nowhere)
    assembled,  \* the entries of the dict collect_metrics is building or built
    crashedIn,  \* the collector or step whose error nothing caught ("none")
    stderr,     \* what the run has written to stderr
    csvAtStart, \* the CSV file as the run found it
    imported,   \* what `import psutil` did ("pending": not run yet)
    \* ---- get_disks_info ----
    mounts,     \* what psutil.disk_partitions(all=False) lists, in order
    usages,     \* what psutil.disk_usage does for each listed partition
    dPc,        \* position inside get_disks_info
    dIdx,       \* the partition the loop is at
    partitions, \* the local list partitions
    dResult,    \* the returned dict (None: nothing returned)
    \* ---- print_table ----
    tSnap,      \* the optional fields of the snapshot print_table is given
    tPc,        \* position inside print_table
    tSec,       \* the section print_table is at
    tRow,       \* the process row the last loop is at
    rendered,   \* the sections and rows printed so far
    \* ---- write_json ----
    jSnap,      \* the dict held in metrics (None: nothing collected yet)
    jFile,      \* the file at the JSON path: None, or the documents in it
    jBefore,    \* the file as the current write_json call found it
    jPc,        \* position in the tick
    \* ---- fmt_bytes ----
    fIn,        \* the argument n: None, or a byte count
    fWhole,     \* the integer part of the local n, in base-1024 digits
    fFrac,      \* the fractional part of the local n, in base-1024 digits
    fI,         \* the local i
    fPc,        \* position inside fmt_bytes
    fOut,       \* the returned text (None: nothing returned)
    \* ---- security_script.py: sudoers_manage, option 2 ----
    dest,       \* the file /etc/sudoers.d/USER: None, or its text
    backups,    \* the files dest.bak-<timestamp>, by timestamp
    now,        \* the clock, in seconds
    sPc,        \* position inside sudoers_manage
    entry,      \* the local entry: the rule line being written
    bkp,        \* the local bkp: what backup_file returned
    rc,         \* the local rc: what run(["visudo", "-cf", dest]) returned
    said,       \* the last line printed
    edits,      \* how many times option 2 was chosen
    before      \* dest as the current option 2 found it

varsTop == <<scenario, n, alive, exited, tpPc, iter, procs, result,
             seen1, seen2, failed2, cpu2>>

varsGpu == <<nvidiaPath, GPUtil, gpuPc, stdout, lineIdx, gpus, devices,
             attempts, errors, gpuResult>>

varsMain == <<once, argInterval, quiet, jsonArg, csvArg, pc, interval, tick,
              metrics, printed, jsonFile, nJson, csvFile, exists, sleeps,
              stoppedAt, assembled, crashedIn, stderr, csvAtStart, imported>>

varsDisks == <<mounts, usages, dPc, dIdx, partitions, dResult>>

varsTable == <<tSnap, tPc, tSec, tRow, rendered>>

varsJson == <<jSnap, jFile, jBefore, jPc>>

varsFmt == <<fIn, fWhole, fFrac, fI, fPc, fOut>>

varsSudo == <<dest, backups, now, sPc, entry, bkp, rc, said, edits, before>>

vars == <<varsTop, varsGpu, varsMain, varsDisks, varsTable, varsJson, varsFmt,
          varsSudo>>

\* ---------------------------------------------------------------- bounds
MaxPid == 2
MaxCpu == 1
MaxRss == 1
MaxN == 2
BigTable == 11
MaxLines == 2
MaxGpus == 2
MaxInterval == 2
MaxTicks == 2
MaxMounts == 2
MaxTotal == 1
MaxRows == 2

\* collect_metrics calls top_processes(10)
TopN == 10

\* Python's None
None == [none |-> TRUE]

Min(a, b) == IF a <= b THEN a ELSE b

MinOf(S) == CHOOSE x \in S : \A y \in S : x <= y

\* ------------------------------------------------------- Python exceptions
\* What a per-process read (cpu_percent, memory_info) can raise: psutil's
\* errors, all subclasses of Exception.
ReadErrors == {"NoSuchProcess", "AccessDenied", "ZombieProcess"}

\* `except Exception` catches every class deriving from Exception;
\* KeyboardInterrupt and SystemExit derive from BaseException only.
IsException(e) == e \notin {"KeyboardInterrupt", "SystemExit"}

\* ------------------------------------------------------------- the sort
\* mutant of SortKey: the tie-break on rss_bytes is lost
SortKeyCpuOnly(x) == <<x.cpu_percent, 0>>

\* key=lambda x: (x["cpu_percent"], x["rss_bytes"])
SortKey(x) == <<x.cpu_percent, x.rss_bytes>>

\* Python's tuple comparison a < b on pairs
TupleLess(a, b) == a[1] < b[1] \/ (a[1] = b[1] /\ a[2] < b[2])

\* list.sort(reverse=True) is stable: x goes after every element whose key
\* is not smaller than its own.
InsertDesc(acc, x) ==
    LET k == Cardinality({j \in 1..Len(acc) :
                            ~TupleLess(SortKey(acc[j]), SortKey(x))})
    IN  SubSeq(acc, 1, k) \o <<x>> \o SubSeq(acc, k + 1, Len(acc))

RECURSIVE SortPrefix(_, _)
SortPrefix(s, i) == IF i = 0 THEN <<>> ELSE InsertDesc(SortPrefix(s, i - 1), s[i])

SortDesc(s) == SortPrefix(s, Len(s))

\* the slice s[:k] for k >= 0
Take(s, k) == SubSeq(s, 1, Min(k, Len(s)))

\* ------------------------------------------------------- top_processes
Universe == IF scenario = "large" THEN 1..BigTable ELSE 1..MaxPid

\* The readings a pass can return.  The large scenario keeps the table
\* quiet (no failure, no exit) and the first CPU reading at 0.0, which is
\* what cpu_percent(interval=None) returns on its first call.
CpuReadings(pass) ==
    IF scenario = "large" THEN (IF pass = 1 THEN {0} ELSE {0, 1}) ELSE 0..MaxCpu
RssReadings == IF scenario = "large" THEN {0} ELSE 0..MaxRss
Failures == IF scenario = "large" THEN {} ELSE ReadErrors

PidsOf(s) == {s[i].pid : i \in 1..Len(s)}

\* pids whose read raised in the first pass: yielded, and nothing appended
failed1 == seen1 \ PidsOf(procs)

\* pids whose item was given a second-pass rss_bytes: the assignment
\* follows that of cpu_percent unless memory_info() raised
rss2 == cpu2 \ failed2

TopInit ==
    /\ \/ /\ scenario = "small"
          /\ n \in 0..MaxN
          /\ alive \in SUBSET (1..MaxPid)
       \/ /\ scenario = "large"
          /\ n = TopN
          /\ alive = 1..BigTable
    /\ exited = {}
    /\ tpPc = "start"
    /\ iter = {}
    /\ procs = <<>>
    /\ result = <<>>
    /\ seen1 = {}
    /\ seen2 = {}
    /\ failed2 = {}
    /\ cpu2 = {}

\* psutil.process_iter takes the pid list when the loop starts
TopStart ==
    /\ tpPc = "start"
    /\ tpPc' = "pass1"
    /\ iter' = alive
    /\ UNCHANGED <<scenario, n, alive, exited, procs, result, seen1, seen2, failed2, cpu2>>

\* process_iter does not yield a pid that is gone when its turn comes
Pass1Skip ==
    /\ tpPc = "pass1"
    /\ iter # {}
    /\ MinOf(iter) \notin alive
    /\ iter' = iter \ {MinOf(iter)}
    /\ UNCHANGED <<scenario, n, alive, exited, tpPc, procs, result, seen1,
                   seen2, failed2, cpu2>>

\* body of the first loop: read cpu and rss, append, or swallow the error
Pass1Read ==
    /\ tpPc = "pass1"
    /\ iter # {}
    /\ LET p == MinOf(iter) IN
       /\ p \in alive
       /\ iter' = iter \ {p}
       /\ seen1' = seen1 \cup {p}
       /\ \/ \E cpu \in CpuReadings(1), mem \in RssReadings :
               /\ procs' = Append(procs, [pid |-> p, cpu_percent |-> cpu,
                                          rss_bytes |-> mem])
               /\ UNCHANGED tpPc
          \/ \E e \in Failures :
               /\ tpPc' = IF IsException(e) THEN tpPc ELSE "raised"
               /\ UNCHANGED procs
    /\ UNCHANGED <<scenario, n, alive, exited, result, seen2, failed2, cpu2>>

\* time.sleep(0.1), then the second process_iter takes a new pid list
Settle ==
    /\ tpPc = "pass1"
    /\ iter = {}
    /\ tpPc' = "pass2"
    /\ iter' = alive
    /\ UNCHANGED <<scenario, n, alive, exited, procs, result, seen1, seen2, failed2, cpu2>>

Pass2Skip ==
    /\ tpPc = "pass2"
    /\ iter # {}
    /\ MinOf(iter) \notin alive
    /\ iter' = iter \ {MinOf(iter)}
    /\ UNCHANGED <<scenario, n, alive, exited, tpPc, procs, result, seen1,
                   seen2, failed2, cpu2>>

\* mutant of FindItem: a pid that has no item gets the first item
FindItemOrFirst(s, p) ==
    IF p \in PidsOf(s) THEN MinOf({i \in 1..Len(s) : s[i].pid = p})
    ELSE IF s # <<>> THEN 1 ELSE 0

\* index of the first item of s with this pid, 0 when there is none
FindItem(s, p) ==
    IF p \in PidsOf(s) THEN MinOf({i \in 1..Len(s) : s[i].pid = p}) ELSE 0

\* body of the second loop
Pass2Read ==
    /\ tpPc = "pass2"
    /\ iter # {}
    /\ LET p == MinOf(iter)
           i == FindItem(procs, p) IN
       /\ p \in alive
       /\ iter' = iter \ {p}
       /\ seen2' = seen2 \cup {p}
       /\ \/ \* cpu_percent(interval=0.1) raises
             \E e \in Failures :
               /\ failed2' = failed2 \cup {p}
               /\ tpPc' = IF IsException(e) THEN tpPc ELSE "raised"
               /\ UNCHANGED <<procs, cpu2>>
          \/ \* no item has this pid: the inner loop finds nothing
             /\ i = 0
             /\ UNCHANGED <<procs, failed2, cpu2, tpPc>>
          \/ \* item found, both values refreshed
             /\ i # 0
             /\ \E cpu \in CpuReadings(2), mem \in RssReadings :
                  procs' = [procs EXCEPT ![i].cpu_percent = cpu,
                                         ![i].rss_bytes = mem]
             /\ cpu2' = cpu2 \cup {p}
             /\ UNCHANGED <<failed2, tpPc>>
          \/ \* item found, cpu stored, then memory_info() raises
             /\ i # 0
             /\ \E cpu \in CpuReadings(2), e \in Failures :
                  /\ procs' = [procs EXCEPT ![i].cpu_percent = cpu]
                  /\ tpPc' = IF IsException(e) THEN tpPc ELSE "raised"
             /\ failed2' = failed2 \cup {p}
             /\ cpu2' = cpu2 \cup {p}
    /\ UNCHANGED <<scenario, n, alive, exited, result, seen1>>

\* procs.sort(...); return procs[:n]
SortAndReturn ==
    /\ tpPc = "pass2"
    /\ iter = {}
    /\ procs' = SortDesc(procs)
    /\ result' = Take(procs', n)
    /\ tpPc' = "done"
    /\ UNCHANGED <<scenario, n, alive, exited, iter, seen1, seen2, failed2, cpu2>>

\* The process table changes while top_processes runs.  Pids are handed out
\* in increasing order and are not reused within one call.
ProcExit ==
    /\ scenario = "small"
    /\ tpPc \in {"pass1", "pass2"}
    /\ \E p \in alive :
         /\ alive' = alive \ {p}
         /\ exited' = exited \cup {p}
    /\ UNCHANGED <<scenario, n, tpPc, iter, procs, result, seen1, seen2, failed2, cpu2>>

ProcSpawn ==
    /\ scenario = "small"
    /\ tpPc \in {"pass1", "pass2"}
    /\ \E p \in Universe :
         /\ \A q \in alive \cup exited : q < p
         /\ alive' = alive \cup {p}
    /\ UNCHANGED <<scenario, n, exited, tpPc, iter, procs, result, seen1,
                   seen2, failed2, cpu2>>


\* --------------------------------------------------------- get_gpu_info
\* Lines nvidia-smi can print for
\* index,name,driver_version,memory.total,memory.used,utilization.gpu,temperature.gpu
Good0 == <<"0", "Tesla", "535.1", "16384", "1024.5", "35", "40">>
Good1 == <<"1", "Tesla", "535.1", "16384", "2048", "0", "38">>
NaLine == <<"1", "Tesla", "535.1", "16384", "2048", "[N/A]", "[N/A]">>
ShortLine == <<"No devices were found">>
Lines == {Good0, Good1, NaLine, ShortLine}

RECURSIVE SeqsUpTo(_, _)
SeqsUpTo(S, k) ==
    IF k = 0 THEN {<<>>}
    ELSE LET shorter == SeqsUpTo(S, k - 1)
         IN  shorter \cup {Append(t, x) : t \in shorter, x \in S}

\* int(s) succeeds
IsInt(s) == s \in {"0", "1", "35", "38", "40", "16384", "2048"}

\* float(s) succeeds
IsFloat(s) == IsInt(s) \/ s \in {"535.1", "1024.5"}

\* the dict built from one line's parts (line 187-195)
NvidiaRecord(parts) ==
    [index |-> parts[1], name |-> parts[2], driver_version |-> parts[3],
     memory_total_mb |-> parts[4], memory_used_mb |-> parts[5],
     utilization_percent |-> parts[6], temperature_c |-> parts[7]]

\* int(parts[0]) and the four float(...) calls all succeed
Parses(parts) ==
    /\ IsInt(parts[1])
    /\ \A j \in 4..7 : IsFloat(parts[j])

\* the dict built for one GPUtil device (line 206-214)
GPUtilRecord(g) == [id |-> g, name |-> "gpu", uuid |-> g]

\* errors of subprocess.run(..., check=True) and of GPUtil.getGPUs()
RunErrors == {"CalledProcessError", "PermissionError"}
GetGPUsErrors == {"ValueError", "OSError"}

\* mutant of OnError: the handler names subprocess.CalledProcessError only
OnErrorNarrow(e, next) == IF e = "CalledProcessError" THEN next ELSE "raised"

\* where an error raised inside `try: ... except Exception: pass` leads
OnError(e, next) == IF IsException(e) THEN next ELSE "raised"

GpuIdle ==
    /\ nvidiaPath = FALSE
    /\ GPUtil = FALSE
    /\ gpuPc = "idle"
    /\ stdout = <<>>
    /\ lineIdx = 0
    /\ gpus = <<>>
    /\ devices = None
    /\ attempts = <<>>
    /\ errors = {}
    /\ gpuResult = None

GpuInit ==
    /\ nvidiaPath \in BOOLEAN
    /\ GPUtil \in BOOLEAN
    /\ gpuPc = "which"
    /\ stdout = <<>>
    /\ lineIdx = 0
    /\ gpus = <<>>
    /\ devices = None
    /\ attempts = <<>>
    /\ errors = {}
    /\ gpuResult = None

\* mutant of AfterWhich: the primary backend is never tried
AfterWhichSkipPrimary == "fallback"

\* `if nvidia_path:` enters the nvidia-smi branch or goes on to GPUtil
AfterWhich == IF nvidiaPath THEN "run" ELSE "fallback"

\* nvidia_path = shutil.which("nvidia-smi"); if nvidia_path:
GpuWhich ==
    /\ gpuPc = "which"
    /\ gpuPc' = AfterWhich
    /\ UNCHANGED <<nvidiaPath, GPUtil, stdout, lineIdx, gpus, devices,
                   attempts, errors, gpuResult>>

\* subprocess.run(cmd, capture_output=True, text=True, check=True)
GpuRun ==
    /\ gpuPc = "run"
    /\ attempts' = Append(attempts, "nvidia-smi")
    /\ \/ \E out \in SeqsUpTo(Lines, MaxLines) :
            /\ stdout' = out
            /\ lineIdx' = 1
            /\ gpuPc' = "parse"
            /\ UNCHANGED errors
       \/ \E e \in RunErrors :
            /\ errors' = errors \cup {"nvidia-smi"}
            /\ gpuPc' = OnError(e, "fallback")
            /\ UNCHANGED <<stdout, lineIdx>>
    /\ UNCHANGED <<nvidiaPath, GPUtil, gpus, devices, gpuResult>>

\* one turn of `for line in ...splitlines()`
GpuParseLine ==
    /\ gpuPc = "parse"
    /\ lineIdx <= Len(stdout)
    /\ LET parts == stdout[lineIdx] IN
       IF Len(parts) >= 7
       THEN IF Parses(parts)
            THEN /\ gpus' = Append(gpus, NvidiaRecord(parts))
                 /\ lineIdx' = lineIdx + 1
                 /\ UNCHANGED <<gpuPc, errors>>
            ELSE \* int() or float() raises ValueError
                 /\ errors' = errors \cup {"nvidia-smi"}
                 /\ gpuPc' = OnError("ValueError", "fallback")
                 /\ UNCHANGED <<gpus, lineIdx>>
       ELSE /\ lineIdx' = lineIdx + 1
            /\ UNCHANGED <<gpus, gpuPc, errors>>
    /\ UNCHANGED <<nvidiaPath, GPUtil, stdout, devices, attempts, gpuResult>>

\* return {"backend": "nvidia-smi", "gpus": gpus}
GpuReturnNvidia ==
    /\ gpuPc = "parse"
    /\ lineIdx > Len(stdout)
    /\ gpuResult' = [backend |-> "nvidia-smi", gpus |-> gpus]
    /\ gpuPc' = "done"
    /\ UNCHANGED <<nvidiaPath, GPUtil, stdout, lineIdx, gpus, devices,
                   attempts, errors>>

\* if GPUtil is not None: gpus = GPUtil.getGPUs() ... return
GpuFallback ==
    /\ gpuPc = "fallback"
    /\ GPUtil
    /\ attempts' = Append(attempts, "GPUtil")
    /\ \/ \E k \in 0..MaxGpus :
            /\ devices' = [list |-> [i \in 1..k |-> i]]
            /\ gpuResult' = [backend |-> "GPUtil",
                             gpus |-> [i \in 1..k |-> GPUtilRecord(i)]]
            /\ gpuPc' = "done"
            /\ UNCHANGED errors
       \/ \E e \in GetGPUsErrors :
            /\ errors' = errors \cup {"GPUtil"}
            /\ gpuPc' = OnError(e, "done")
            /\ UNCHANGED <<devices, gpuResult>>
    /\ UNCHANGED <<nvidiaPath, GPUtil, stdout, lineIdx, gpus>>

\* GPUtil is None: return None
GpuAbsent ==
    /\ gpuPc = "fallback"
    /\ ~GPUtil
    /\ gpuResult' = None
    /\ gpuPc' = "done"
    /\ UNCHANGED <<nvidiaPath, GPUtil, stdout, lineIdx, gpus, devices,
                   attempts, errors>>

TopIdle ==
    /\ scenario = "small"
    /\ n = 0
    /\ alive = {}
    /\ exited = {}
    /\ tpPc = "idle"
    /\ iter = {}
    /\ procs = <<>>
    /\ result = <<>>
    /\ seen1 = {}
    /\ seen2 = {}
    /\ failed2 = {}
    /\ cpu2 = {}

\* ------------------------------------------------------------------ main
\* the fallback of line 370
DefaultInterval == 5

\* mutant of EffectiveInterval: the test is >= 0 and 0 is kept
EffectiveIntervalNonNegative(i) == IF i >= 0 THEN i ELSE DefaultInterval

\* interval = args.interval if args.interval and args.interval > 0 else 5
\* (an int is truthy when it is not 0)
EffectiveInterval(i) == IF i # 0 /\ i > 0 THEN i ELSE DefaultInterval

\* mutant of Mode: a positive --interval selects the loop even with --once
ModeByInterval ==
    IF once /\ argInterval = 0 THEN "single" ELSE "continuous"

\* main's branch `if args.once:`: the run is single-sample when the flag is
\* set and continuous otherwise; args.interval takes no part in the choice
\* (parse_args accepts --interval next to --once).
Mode == IF once THEN "single" ELSE "continuous"

\* mutant of EndOfTick: the loop body ends with a return
EndOfTickReturns == "returned"

\* mutant of EndOfTick: the `return` of the --once branch is missing
EndOfTickNoReturn == "sleep"

\* What ends a tick: `return` in the --once branch, time.sleep in the loop.
EndOfTick == IF Mode = "single" THEN "returned" ELSE "sleep"

\* The statements of a tick after `stage`, in program order, skipping the
\* exporters whose `if` is false.
AfterCsv == EndOfTick
AfterJson == IF csvArg THEN "csv_open" ELSE AfterCsv
\* mutant of AfterTable: write_json is gated by the CSV option
AfterTableWrongFlag == IF csvArg THEN "json_open" ELSE AfterJson

AfterTable == IF jsonArg THEN "json_open" ELSE AfterJson
AfterCollect == IF ~quiet THEN "print_table" ELSE AfterTable

\* mutant of Unwind: the loop has no `except KeyboardInterrupt`
UnwindUncaught(e) == "crashed"

\* Where an exception raised inside main leads: the loop's
\* `except KeyboardInterrupt` prints "Stopped." and main returns; the --once
\* branch has no handler, and no handler catches anything else.
Unwind(e) == IF ~once /\ e = "KeyboardInterrupt" THEN "stopped" ELSE "crashed"

\* The CSV file: whether the path exists, and its lines.  A line is the
\* header, a data row (named by the tick of its snapshot) or a line left
\* by an earlier run.
NoFile == [present |-> FALSE, lines |-> <<>>]
OldFile == [present |-> TRUE, lines |-> <<[kind |-> "old", snap |-> 0]>>]
HeaderLine == [kind |-> "header", snap |-> 0]
RowLine(m) == [kind |-> "row", snap |-> m]

EmptyFile == [present |-> TRUE, lines |-> <<>>]

\* errors a step can raise besides an interrupt
CollectErrors == {"psutil.Error"}
TableErrors == {"TypeError"}
FileErrors == {"PermissionError", "OSError"}

Running == {"collect", "assemble", "print_table", "json_open", "json_dump",
            "csv_open", "csv_header", "csv_row", "sleep"}

\* data rows this run has appended to the CSV file
CsvRows == SelectSeq(csvFile.lines, LAMBDA l : l.kind = "row")

\* ------------------------------------------------------- collect_metrics
\* the keys of the dict literal of collect_metrics, in evaluation order
SnapshotKeys == <<"timestamp", "os", "cpu", "memory", "disks", "network",
                  "battery", "temperatures", "gpus", "process_count",
                  "top_processes">>

OptionalDomains == {"disks", "network", "battery", "temperatures", "gpus"}

\* What the telemetry provider does when a domain's query is made: it
\* supplies data, supplies nothing (no device of that kind), or raises.
ProviderOutcomes(key) ==
    IF key = "timestamp" THEN {"data"}
    ELSE IF key \in OptionalDomains THEN {"data", "nothing", "raises"}
    ELSE {"data", "raises"}

\* mutant of safe_call: the error is not caught
safe_call_reraise(outcome, default) ==
    IF outcome = "raises" THEN "raise" ELSE outcome

\* safe_call(func, default): func() or, when it raises, default
safe_call(outcome, default) ==
    IF outcome = "raises" THEN default ELSE outcome

\* get_disks_info: psutil.disk_partitions is called bare (line 124); with
\* no partition the list is empty
get_disks_info(outcome) ==
    CASE outcome = "raises" -> "raise"
      [] outcome = "nothing" -> "empty"
      [] OTHER -> "value"

\* get_network_info: the three psutil calls are bare (lines 139-141)
get_network_info(outcome) ==
    CASE outcome = "raises" -> "raise"
      [] outcome = "nothing" -> "empty"
      [] OTHER -> "value"

\* get_battery_info: safe_call, then `if not batt: return None`
get_battery_info(outcome) ==
    IF safe_call(outcome, "nothing") = "nothing" THEN "absent" ELSE "value"

\* get_temps_info: safe_call, then `if not temps: return None`
get_temps_info(outcome) ==
    IF safe_call(outcome, "nothing") = "nothing" THEN "absent" ELSE "value"

\* get_gpu_info seen from collect_metrics: a backend that raises leads to
\* None, a backend that lists no device to a report with no device
gpu_domain(outcome) ==
    CASE outcome = "raises" -> "absent"
      [] outcome = "nothing" -> "empty"
      [] OTHER -> "value"

\* the other entries call psutil bare
bare_call(outcome) == IF outcome = "raises" THEN "raise" ELSE "value"

\* what evaluating the entry `key` of the dict literal gives
Collector(key, outcome) ==
    CASE key = "disks" -> get_disks_info(outcome)
      [] key = "network" -> get_network_info(outcome)
      [] key = "battery" -> get_battery_info(outcome)
      [] key = "temperatures" -> get_temps_info(outcome)
      [] key = "gpus" -> gpu_domain(outcome)
      [] OTHER -> bare_call(outcome)

KeysOf(d) == [i \in 1..Len(d) |-> d[i].key]

\* mutant of Assembled: the dict is handed over after its first entry
AssembledEarly == Len(assembled) >= 1

\* the dict literal is complete: every entry has been evaluated
Assembled == Len(assembled) = Len(SnapshotKeys)

\* what an uncaught exception leaves on stderr, and the handler's message
StderrAfter(e) ==
    Append(stderr, IF ~once /\ e = "KeyboardInterrupt"
                   THEN "Stopped." ELSE "Traceback")

\* the exit status of the interpreter: 1 after an uncaught exception and
\* after sys.exit(1)
ExitCode == IF pc \in {"crashed", "exited"} THEN 1 ELSE 0

argv == <<once, argInterval, quiet, jsonArg, csvArg, csvAtStart>>

MainIdle ==
    /\ once = FALSE
    /\ argInterval = 0
    /\ quiet = FALSE
    /\ jsonArg = FALSE
    /\ csvArg = FALSE
    /\ pc = "idle"
    /\ interval = 0
    /\ tick = 0
    /\ metrics = 0
    /\ printed = <<>>
    /\ jsonFile = None
    /\ nJson = 0
    /\ csvFile = NoFile
    /\ exists = FALSE
    /\ sleeps = <<>>
    /\ stoppedAt = "none"
    /\ assembled = <<>>
    /\ crashedIn = "none"
    /\ stderr = <<>>
    /\ csvAtStart = NoFile
    /\ imported = "pending"

\* args = parse_args(), and the files as the run finds them
MainInit ==
    /\ once \in BOOLEAN
    /\ argInterval \in (-1)..MaxInterval
    /\ quiet \in BOOLEAN
    /\ jsonArg \in BOOLEAN
    /\ csvArg \in BOOLEAN
    /\ pc = "import"
    /\ interval = 0
    /\ tick = 0
    /\ metrics = 0
    /\ printed = <<>>
    /\ jsonFile = None
    /\ nJson = 0
    /\ csvFile \in {NoFile, EmptyFile, OldFile}
    /\ exists = FALSE
    /\ sleeps = <<>>
    /\ stoppedAt = "none"
    /\ assembled = <<>>
    /\ crashedIn = "none"
    /\ stderr = <<>>
    /\ csvAtStart = csvFile
    /\ imported = "pending"

\* what `import psutil` can do: succeed, fail with ImportError (the
\* package is missing or broken), or raise what psutil raises on a
\* platform it does not support
ImportOutcomes == {"ok", "ImportError", "NotImplementedError"}

\* mutant of AfterImport: the failed import is ignored
AfterImportIgnored(outcome) == "start"

\* try: import psutil / except ImportError: print(...); sys.exit(1)
AfterImport(outcome) ==
    CASE outcome = "ok" -> "start"
      [] outcome = "ImportError" -> "exited"
      [] OTHER -> "crashed"

\* what the failed import leaves on stderr
ImportMessage(outcome) ==
    IF outcome = "ImportError" THEN "This script requires 'psutil'."
    ELSE "Traceback"

\* the module-level import, before main() is called
ImportPsutil ==
    /\ pc = "import"
    /\ \E outcome \in ImportOutcomes :
         /\ imported' = outcome
         /\ pc' = AfterImport(outcome)
         /\ stderr' = IF outcome = "ok" THEN stderr
                       ELSE Append(stderr, ImportMessage(outcome))
         /\ crashedIn' = IF pc' = "crashed" THEN "import" ELSE crashedIn
    /\ UNCHANGED <<argv, interval, tick, metrics, printed, jsonFile, nJson,
                   csvFile, exists, sleeps, stoppedAt, assembled>>

\* if args.once: ... else: interval = ...; try: while True:
Start ==
    /\ pc = "start"
    /\ interval' = IF Mode = "single" THEN interval
                 ELSE EffectiveInterval(argInterval)
    /\ pc' = "collect"
    /\ UNCHANGED <<argv, imported, tick, metrics, printed, jsonFile, nJson, csvFile,
                   exists, sleeps, stoppedAt, assembled, crashedIn, stderr>>

\* mutant of NewDict: collect_metrics updates the dict of the previous tick
ReusedDict == assembled

\* collect_metrics builds its result with a dict literal: every call starts
\* from a new, empty dict.
NewDict == <<>>

\* metrics = collect_metrics(): the call
Collect ==
    /\ pc = "collect"
    /\ tick < MaxTicks
    /\ tick' = tick + 1
    /\ assembled' = NewDict
    /\ pc' = "assemble"
    /\ UNCHANGED <<argv, imported, interval, metrics, printed, jsonFile, nJson, csvFile,
                   exists, sleeps, stoppedAt, crashedIn, stderr>>

\* collect_metrics: the next entry of the dict literal is evaluated
Assemble ==
    /\ pc = "assemble"
    /\ Len(assembled) < Len(SnapshotKeys)
    /\ LET key == SnapshotKeys[Len(assembled) + 1] IN
       \E outcome \in ProviderOutcomes(key) :
         LET val == Collector(key, outcome) IN
         IF val = "raise"
         THEN /\ pc' = Unwind("psutil.Error")
              /\ crashedIn' = key
              /\ stderr' = StderrAfter("psutil.Error")
              /\ UNCHANGED assembled
         ELSE /\ assembled' = Append(assembled, [key |-> key, val |-> val])
              /\ UNCHANGED <<pc, crashedIn, stderr>>
    /\ UNCHANGED <<argv, imported, interval, tick, metrics, printed, jsonFile, nJson,
                   csvFile, exists, sleeps, stoppedAt>>

\* collect_metrics returns the dict, which main binds to metrics
CollectReturn ==
    /\ pc = "assemble"
    /\ Assembled
    /\ metrics' = tick
    /\ pc' = AfterCollect
    /\ UNCHANGED <<argv, imported, interval, tick, printed, jsonFile, nJson, csvFile,
                   exists, sleeps, stoppedAt, assembled, crashedIn, stderr>>

\* print_table(metrics)
PrintTable ==
    /\ pc = "print_table"
    /\ \/ /\ printed' = Append(printed, metrics)
          /\ pc' = AfterTable
          /\ UNCHANGED <<crashedIn, stderr>>
       \/ \E e \in TableErrors :
            /\ pc' = Unwind(e)
            /\ crashedIn' = pc
            /\ stderr' = StderrAfter(e)
            /\ UNCHANGED printed
    /\ UNCHANGED <<argv, imported, interval, tick, metrics, jsonFile, nJson, csvFile,
                   exists, sleeps, stoppedAt, assembled>>

\* write_json: open(path, "w") truncates the file
JsonOpen ==
    /\ pc = "json_open"
    /\ \/ /\ jsonFile' = [snap |-> metrics, whole |-> FALSE]
          /\ pc' = "json_dump"
          /\ UNCHANGED <<crashedIn, stderr>>
       \/ \E e \in FileErrors :
            /\ pc' = Unwind(e)
            /\ crashedIn' = pc
            /\ stderr' = StderrAfter(e)
            /\ UNCHANGED jsonFile
    /\ UNCHANGED <<argv, imported, interval, tick, metrics, printed, nJson, csvFile,
                   exists, sleeps, stoppedAt, assembled>>

\* write_json: json.dump(metrics, f, indent=2) and the close of the file
JsonDump ==
    /\ pc = "json_dump"
    /\ \/ /\ jsonFile' = [snap |-> metrics, whole |-> TRUE]
          /\ nJson' = nJson + 1
          /\ pc' = AfterJson
          /\ UNCHANGED <<crashedIn, stderr>>
       \/ \E e \in FileErrors :
            /\ pc' = Unwind(e)
            /\ crashedIn' = pc
            /\ stderr' = StderrAfter(e)
            /\ UNCHANGED <<jsonFile, nJson>>
    /\ UNCHANGED <<argv, imported, interval, tick, metrics, printed, csvFile, exists,
                   sleeps, stoppedAt, assembled>>

\* mutant of OpenAppend: the file is opened with mode "w"
OpenTruncate(f) == [present |-> TRUE, lines |-> <<>>]

\* open(path, "a"): the file is created when missing, its content kept
OpenAppend(f) == [f EXCEPT !.present = TRUE]

\* mutant of AfterCsvOpen: the header is written on every call
AfterCsvOpenAlways(ex) == "csv_header"

\* `if not exists: writer.writeheader()`
AfterCsvOpen(ex) == IF ex THEN "csv_row" ELSE "csv_header"

\* append_csv: exists = os.path.exists(path); open(path, "a")
CsvOpen ==
    /\ pc = "csv_open"
    /\ exists' = csvFile.present
    /\ \/ /\ csvFile' = OpenAppend(csvFile)
          /\ pc' = AfterCsvOpen(exists')
          /\ UNCHANGED <<crashedIn, stderr>>
       \/ \E e \in FileErrors :
            /\ pc' = Unwind(e)
            /\ crashedIn' = pc
            /\ stderr' = StderrAfter(e)
            /\ UNCHANGED csvFile
    /\ UNCHANGED <<argv, imported, interval, tick, metrics, printed, jsonFile, nJson,
                   sleeps, stoppedAt, assembled>>

\* append_csv: writer.writeheader()
CsvHeader ==
    /\ pc = "csv_header"
    /\ csvFile' = [csvFile EXCEPT !.lines = Append(@, HeaderLine)]
    /\ pc' = "csv_row"
    /\ UNCHANGED <<argv, imported, interval, tick, metrics, printed, jsonFile, nJson,
                   exists, sleeps, stoppedAt, assembled, crashedIn, stderr>>

\* append_csv: writer.writerow(row) and the close of the file
CsvRow ==
    /\ pc = "csv_row"
    /\ \/ /\ csvFile' = [csvFile EXCEPT !.lines = Append(@, RowLine(metrics))]
          /\ pc' = AfterCsv
          /\ UNCHANGED <<crashedIn, stderr>>
       \/ \E e \in FileErrors :
            /\ pc' = Unwind(e)
            /\ crashedIn' = pc
            /\ stderr' = StderrAfter(e)
            /\ UNCHANGED csvFile
    /\ UNCHANGED <<argv, imported, interval, tick, metrics, printed, jsonFile, nJson,
                   exists, sleeps, stoppedAt, assembled>>

\* time.sleep(interval)
Sleep ==
    /\ pc = "sleep"
    /\ sleeps' = Append(sleeps, interval)
    /\ pc' = "collect"
    /\ UNCHANGED <<argv, imported, interval, tick, metrics, printed, jsonFile, nJson,
                   csvFile, exists, stoppedAt, assembled, crashedIn, stderr>>

\* The operator's interrupt: Python raises KeyboardInterrupt in the main
\* thread at the statement being executed, whichever it is.
Interrupt ==
    /\ pc \in Running
    /\ stoppedAt = "none"
    /\ stoppedAt' = pc
    /\ pc' = Unwind("KeyboardInterrupt")
    /\ stderr' = StderrAfter("KeyboardInterrupt")
    /\ UNCHANGED <<argv, imported, interval, tick, metrics, printed, jsonFile, nJson,
                   csvFile, exists, sleeps, assembled, crashedIn>>

\* -------------------------------------------------------- get_disks_info
\* a partition as psutil.disk_partitions lists it
Partition(d) == [device |-> d, mountpoint |-> d, fstype |-> "ext4"]

\* psutil.disk_usage(mountpoint) raised
Raises == [raises |-> TRUE]

\* what psutil.disk_usage(mountpoint) can do: raise, or return the
\* named tuple (total, used, percent)
UsageOutcomes ==
    {Raises} \cup
    UNION {{[total |-> t, used |-> u,
             percent |-> IF t = 0 THEN 0 ELSE (100 * u) \div t] :
               u \in 0..t} : t \in 0..MaxTotal}

\* getattr(obj, name, None) of a named tuple or of None
getattr(obj, name) == IF obj = None THEN None ELSE [v |-> obj[name]]

\* the dict appended for partition p (lines 126-133)
Entry(p, usage) ==
    [device |-> p.device,
     mountpoint |-> p.mountpoint,
     fstype |-> p.fstype,
     total |-> getattr(usage, "total"),
     used |-> getattr(usage, "used"),
     percent |-> getattr(usage, "percent")]

\* mutant of AppendEntry: a partition whose usage query failed is left out
AppendEntryIfUsage(list, p, usage) ==
    IF usage = None THEN list ELSE Append(list, Entry(p, usage))

\* partitions.append({...})
AppendEntry(list, p, usage) == Append(list, Entry(p, usage))

DisksIdle ==
    /\ mounts = <<>>
    /\ usages = <<>>
    /\ dPc = "idle"
    /\ dIdx = 0
    /\ partitions = <<>>
    /\ dResult = None

DisksInit ==
    /\ mounts \in SeqsUpTo({Partition(d) : d \in 1..MaxMounts}, MaxMounts)
    /\ usages \in SeqsUpTo(UsageOutcomes, MaxMounts)
    /\ Len(usages) = Len(mounts)
    /\ dPc = "start"
    /\ dIdx = 0
    /\ partitions = <<>>
    /\ dResult = None

\* for p in psutil.disk_partitions(all=False): the call is not guarded
DisksEnumerate ==
    /\ dPc = "start"
    /\ \/ dPc' = "loop" /\ dIdx' = 1
       \/ dPc' = "raised" /\ dIdx' = dIdx
    /\ UNCHANGED <<mounts, usages, partitions, dResult>>

\* one turn of the loop: usage = safe_call(lambda: psutil.disk_usage(...))
\* and the append
DisksUsage ==
    /\ dPc = "loop"
    /\ dIdx <= Len(mounts)
    /\ LET got == safe_call(IF usages[dIdx] = Raises THEN "raises" ELSE "data",
                            "nothing")
           usage == IF got = "nothing" THEN None ELSE usages[dIdx]
       IN  partitions' = AppendEntry(partitions, mounts[dIdx], usage)
    /\ dIdx' = dIdx + 1
    /\ UNCHANGED <<mounts, usages, dPc, dResult>>

\* io = safe_call(lambda: psutil.disk_io_counters(perdisk=True), {}) and
\* the return
DisksReturn ==
    /\ dPc = "loop"
    /\ dIdx > Len(mounts)
    /\ \E outcome \in {"data", "raises"} :
         dResult' = [partitions |-> partitions,
                     io_counters |-> safe_call(outcome, "empty")]
    /\ dPc' = "done"
    /\ UNCHANGED <<mounts, usages, dIdx, partitions>>

\* ----------------------------------------------------------- print_table
\* the sections of the table, in the order print_table prints them
Sections == <<"os", "cpu", "memory", "disks", "network", "battery",
              "temperatures", "gpus", "top_processes">>

\* mutant of GuardedSections: the GPU section has no `if`
GuardedSectionsNoGpu == {"battery", "temperatures"}

\* the sections behind `if metrics[...]:`
GuardedSections == {"battery", "temperatures", "gpus"}

\* a value that is there
Some(x) == [v |-> x]

\* The optional fields of a snapshot collect_metrics can return: each is
\* None or a value; gpus may also be a report that lists no device; name
\* is None when process_iter could not read it (ad_value).
TableSnapshots ==
    [frequency_mhz : {None, Some(2400)},
     load_average : {None, Some(1)},
     total : {None, Some(1)},
     speed_mbps : {None, Some(1000)},
     io : {None, Some(1)},
     battery : {None, Some(1)},
     temperatures : {None, Some(1)},
     gpus : {None, Some(0), Some(1)},
     names : SeqsUpTo({None, Some("init")}, MaxRows)]

\* format(value, format_spec) as an f-string field does it: None takes
\* the empty format spec only (NoneType.__format__ raises TypeError)
Format(value, fmt) ==
    IF value = None
    THEN IF fmt = "" THEN "None" ELSE "TypeError"
    ELSE "text"

\* fmt_bytes(n): "n/a" for None, else the scaled number and its unit
BytesCell(x) == IF x = None THEN "n/a" ELSE "bytes"

\* `x or 'n/a'` and `... if x is not None else "n/a"`
OrNa(x) == IF x = None THEN "n/a" ELSE "text"

\* bool(x) of an optional field: None is falsy, a report dict is truthy
\* even when its device list is empty
Truthy(x) == x # None

\* what the section named sec prints for snapshot m (lines 268-314)
SectionCells(sec, m) ==
    CASE sec = "cpu" ->
           <<OrNa(m.frequency_mhz),
             IF Truthy(m.load_average) THEN "load avg" ELSE "no load avg">>
      [] sec = "disks" ->
           <<IF m.total # None THEN BytesCell(m.total) ELSE "n/a">>
      [] sec = "network" ->
           <<OrNa(m.speed_mbps),
             IF Truthy(m.io) THEN "counters" ELSE "no counters">>
      [] OTHER -> <<"text">>

TableIdle ==
    /\ tSnap = None
    /\ tPc = "idle"
    /\ tSec = 0
    /\ tRow = 0
    /\ rendered = <<>>

TableInit ==
    /\ tSnap \in TableSnapshots
    /\ tPc = "sections"
    /\ tSec = 1
    /\ tRow = 0
    /\ rendered = <<>>

\* a section that is printed: the five that have no guard, a guarded one
\* whose field is truthy, and the heading of the process list
TablePrint ==
    /\ tPc = "sections"
    /\ tSec <= Len(Sections)
    /\ LET sec == Sections[tSec] IN
        /\ sec \in GuardedSections => Truthy(tSnap[sec])
        /\ rendered' = Append(rendered,
                              [section |-> sec, cells |-> SectionCells(sec, tSnap)])
        /\ IF sec = "top_processes"
           THEN tPc' = "rows" /\ tRow' = 1 /\ tSec' = tSec
           ELSE tPc' = tPc /\ tRow' = tRow /\ tSec' = tSec + 1
    /\ UNCHANGED tSnap

\* a guarded section whose field is None: nothing is printed
TableOmit ==
    /\ tPc = "sections"
    /\ tSec <= Len(Sections)
    /\ Sections[tSec] \in GuardedSections
    /\ ~Truthy(tSnap[Sections[tSec]])
    /\ tSec' = tSec + 1
    /\ UNCHANGED <<tSnap, tPc, tRow, rendered>>

\* one row of the process list (line 319): the name is formatted with
\* the format spec "<22"
TableRow ==
    /\ tPc = "rows"
    /\ tRow <= Len(tSnap.names)
    /\ LET cell == Format(tSnap.names[tRow], "<22") IN
         IF cell = "TypeError"
         THEN tPc' = "raised" /\ UNCHANGED <<tRow, rendered>>
         ELSE /\ rendered' = Append(rendered,
                                    [section |-> "row", cells |-> <<cell>>])
              /\ tRow' = tRow + 1
              /\ tPc' = tPc
    /\ UNCHANGED <<tSnap, tSec>>

\* the closing rule; print_table returns
TableEnd ==
    /\ tPc = "rows"
    /\ tRow > Len(tSnap.names)
    /\ tPc' = "done"
    /\ UNCHANGED <<tSnap, tSec, tRow, rendered>>

\* ------------------------------------------------------------ write_json
\* Python values, by type
PyBool(b) == [bool |-> b]
PyInt(i) == [int |-> i]
PyFloat(tenths) == [float |-> tenths]
PyStr(x) == [str |-> x]
PyList(items) == [list |-> items]
PyTuple(items) == [tuple |-> items]
PyDict(ks, vs) == [keys |-> ks, vals |-> vs]

\* JSON documents, by production of the grammar
JNull == [jnull |-> TRUE]
JBool(b) == [jbool |-> b]
JNumber(digits, point) == [digits |-> digits, point |-> point]
JString(x) == [jstring |-> x]
JArray(items) == [jarray |-> items]
JObject(ks, vs) == [jkeys |-> ks, jvals |-> vs]

Is(v, field) == field \in DOMAIN v

\* str(i) of a small int, as the encoder does for an int key
IntText(i) == CASE i = 0 -> "0" [] i = 1 -> "1" [] i = 2 -> "2" [] OTHER -> "3"

\* the encoder's key conversion: a str key is kept, an int, bool or None
\* key becomes text
KeyText(k) ==
    CASE Is(k, "str") -> k.str
      [] Is(k, "int") -> IntText(k.int)
      [] Is(k, "bool") -> IF k.bool THEN "true" ELSE "false"
      [] OTHER -> "null"

\* json.dump(obj, f): the document written for obj
RECURSIVE json_dump(_)
json_dump(v) ==
    CASE v = None -> JNull
      [] Is(v, "bool") -> JBool(v.bool)
      [] Is(v, "int") -> JNumber(v.int, FALSE)
      [] Is(v, "float") -> JNumber(v.float, TRUE)
      [] Is(v, "str") -> JString(v.str)
      [] Is(v, "list") ->
           JArray([i \in 1..Len(v.list) |-> json_dump(v.list[i])])
      [] Is(v, "tuple") ->
           JArray([i \in 1..Len(v.tuple) |-> json_dump(v.tuple[i])])
      [] OTHER ->
           JObject([i \in 1..Len(v.keys) |-> KeyText(v.keys[i])],
                   [i \in 1..Len(v.vals) |-> json_dump(v.vals[i])])

\* what json.load makes of one document
RECURSIVE Decode(_)
Decode(d) ==
    CASE d = JNull -> None
      [] Is(d, "jbool") -> PyBool(d.jbool)
      [] Is(d, "digits") ->
           IF d.point THEN PyFloat(d.digits) ELSE PyInt(d.digits)
      [] Is(d, "jstring") -> PyStr(d.jstring)
      [] Is(d, "jarray") ->
           PyList([i \in 1..Len(d.jarray) |-> Decode(d.jarray[i])])
      [] OTHER ->
           PyDict([i \in 1..Len(d.jkeys) |-> PyStr(d.jkeys[i])],
                  [i \in 1..Len(d.jvals) |-> Decode(d.jvals[i])])

\* json.load(f): a file that holds one document gives its value, anything
\* else is a JSONDecodeError
json_load(f) ==
    IF Len(f.docs) = 1 THEN Decode(f.docs[1])
    ELSE [error |-> "JSONDecodeError"]

\* one entry of top_processes (line 244)
ProcDict(name) ==
    PyDict(<<PyStr("pid"), PyStr("name"), PyStr("cpu_percent"),
             PyStr("rss_bytes")>>,
           <<PyInt(1), name, PyFloat(5), PyInt(2)>>)

\* get_battery_info's dict (lines 158-162)
BatteryDict ==
    PyDict(<<PyStr("percent"), PyStr("secsleft"), PyStr("power_plugged")>>,
           <<PyFloat(995), PyInt(3), PyBool(TRUE)>>)

\* get_gpu_info's report with k devices (lines 187-196 and 206-215)
GpuReport(k) ==
    PyDict(<<PyStr("backend"), PyStr("gpus")>>,
           <<PyStr("nvidia-smi"),
             PyList([i \in 1..k |->
                 PyDict(<<PyStr("index"), PyStr("name"), PyStr("util_percent")>>,
                        <<PyInt(i), PyStr("Tesla"), PyFloat(350)>>)])>>)

\* get_cpu_info's dict: the per-core usages are a list, the core count
\* may be None
CpuDict ==
    PyDict(<<PyStr("physical_cores"), PyStr("usage_percent_total"),
             PyStr("usage_percent_per_core")>>,
           <<None, PyFloat(125), PyList(<<PyFloat(100), PyFloat(150)>>)>>)

\* the dict collect_metrics returns (lines 223-235)
Snapshot(ts, battery, gpu, names) ==
    PyDict([i \in 1..Len(SnapshotKeys) |-> PyStr(SnapshotKeys[i])],
           <<PyStr(ts),
             PyDict(<<PyStr("node")>>, <<PyStr("host")>>),
             CpuDict,
             PyDict(<<PyStr("ram_percent")>>, <<PyFloat(500)>>),
             PyDict(<<PyStr("partitions"), PyStr("io_counters")>>,
                    <<PyList(<<>>), PyDict(<<>>, <<>>)>>),
             PyDict(<<PyStr("interfaces")>>, <<PyDict(<<>>, <<>>)>>),
             battery,
             None,
             gpu,
             PyInt(Len(names)),
             PyList([i \in 1..Len(names) |-> ProcDict(names[i])])>>)

JsonSnapshots ==
    {Snapshot(ts, b, g, names) :
        ts \in {"t1", "t2"},
        b \in {None, BatteryDict},
        g \in {None} \cup {GpuReport(k) : k \in 0..1},
        names \in SeqsUpTo({None, PyStr("init")}, MaxRows)}

\* mutant of OpenWrite: the file is opened with mode "a"
OpenKeep(f) == IF f = None THEN [docs |-> <<>>] ELSE f

\* open(path, "w"): the file is created or emptied
OpenWrite(f) == [docs |-> <<>>]

JsonIdle ==
    /\ jSnap = None
    /\ jFile = None
    /\ jBefore = None
    /\ jPc = "idle"

JsonInit ==
    /\ jSnap = None
    /\ jFile \in {None, [docs |-> <<JString("old")>>]}
    /\ jBefore = None
    /\ jPc = "collect"

\* metrics = collect_metrics()
JsonCollect ==
    /\ jPc = "collect"
    /\ jSnap' \in JsonSnapshots
    /\ jBefore' = None
    /\ jPc' = "open"
    /\ UNCHANGED jFile

\* with open(path, "w", encoding="utf-8") as f
WriteJsonOpen ==
    /\ jPc = "open"
    /\ jBefore' = jFile
    /\ jFile' = OpenWrite(jFile)
    /\ jPc' = "dump"
    /\ UNCHANGED jSnap

\* json.dump(metrics, f, indent=2), and the file is closed
WriteJsonDump ==
    /\ jPc = "dump"
    /\ jFile' = [docs |-> Append(jFile.docs, json_dump(jSnap))]
    /\ jPc' = "written"
    /\ UNCHANGED <<jSnap, jBefore>>

\* the loop comes round to the next tick
JsonNextTick ==
    /\ jPc = "written"
    /\ jPc' = "collect"
    /\ UNCHANGED <<jSnap, jFile, jBefore>>

\* -------------------------------------------------------------- fmt_bytes
\* step = 1024.0
Step == 1024

units == <<"B", "KiB", "MiB", "GiB", "TiB">>

\* A byte count is held as its digits in base Step, least significant
\* first and without leading zeros (<<>> is 0).  The counts are those a
\* float holds exactly (below 2^53 = 8 * 1024^5), so that n /= step is
\* exact as it is in Python.
LimbDigits == {0, 1, 256, 512, 768, 1023}

ByteCounts ==
    {d \in SeqsUpTo(LimbDigits, 6) :
        /\ d # <<>> => d[Len(d)] # 0
        /\ Len(d) = 6 => d[6] < 8}

\* a * m + carry for a small m
RECURSIVE BigMulSmall(_, _, _)
BigMulSmall(a, m, carry) ==
    IF a = <<>> THEN (IF carry = 0 THEN <<>> ELSE <<carry>>)
    ELSE LET v == Head(a) * m + carry
         IN  <<v % Step>> \o BigMulSmall(Tail(a), m, v \div Step)

\* a + c for a small c
RECURSIVE BigAddSmall(_, _)
BigAddSmall(a, c) ==
    IF c = 0 THEN a
    ELSE IF a = <<>> THEN <<c>>
    ELSE LET v == Head(a) + c
         IN  <<v % Step>> \o BigAddSmall(Tail(a), v \div Step)

\* 10 * 0.frac for a fraction given most significant digit first: the
\* integer part (carry) and the fraction that is left
RECURSIVE TenTimes(_)
TenTimes(frac) ==
    IF frac = <<>> THEN [carry |-> 0, digits |-> <<>>]
    ELSE LET rest == TenTimes(Tail(frac))
             v == 10 * Head(frac) + rest.carry
         IN  [carry |-> v \div Step, digits |-> <<v % Step>> \o rest.digits]

AllZero(q) == \A k \in 1..Len(q) : q[k] = 0

\* 0.frac compared with one half: "below", "half" or "above"
AgainstHalf(frac) ==
    IF frac = <<>> THEN "below"
    ELSE IF 2 * Head(frac) > Step THEN "above"
    ELSE IF 2 * Head(frac) < Step THEN "below"
    ELSE IF AllZero(Tail(frac)) THEN "half" ELSE "above"

\* f"{n:.1f}": the number of tenths printed, the exact value rounded to
\* the nearest tenth, a tie to the even one
OneDecimal(whole, frac) ==
    LET t == TenTimes(frac)
        low == BigAddSmall(BigMulSmall(whole, 10, 0), t.carry)
        odd == low # <<>> /\ low[1] % 2 = 1
        side == AgainstHalf(t.digits)
    IN  IF side = "above" \/ (side = "half" /\ odd)
        THEN BigAddSmall(low, 1) ELSE low

\* mutant of LoopGuard: the loop tests n > step
LoopGuardStrict(whole, i) ==
    /\ Len(whole) >= 2
    /\ whole # <<0, 1>>
    /\ i < Len(units) - 1

\* while n >= step and i < len(units) - 1
LoopGuard(whole, i) ==
    /\ Len(whole) >= 2
    /\ i < Len(units) - 1

FmtIdle ==
    /\ fIn = None
    /\ fWhole = <<>>
    /\ fFrac = <<>>
    /\ fI = 0
    /\ fPc = "idle"
    /\ fOut = None

FmtInit ==
    /\ fIn \in {None} \cup {[bytes |-> d] : d \in ByteCounts}
    /\ fWhole = <<>>
    /\ fFrac = <<>>
    /\ fI = 0
    /\ fPc = "start"
    /\ fOut = None

\* if n is None: return "n/a"
FmtAbsent ==
    /\ fPc = "start"
    /\ fIn = None
    /\ fOut' = [text |-> "n/a"]
    /\ fPc' = "done"
    /\ UNCHANGED <<fIn, fWhole, fFrac, fI>>

\* step = 1024.0; units = [...]; i = 0
FmtEnter ==
    /\ fPc = "start"
    /\ fIn # None
    /\ fWhole' = fIn.bytes
    /\ fFrac' = <<>>
    /\ fI' = 0
    /\ fPc' = "loop"
    /\ UNCHANGED <<fIn, fOut>>

\* n /= step; i += 1
FmtDivide ==
    /\ fPc = "loop"
    /\ LoopGuard(fWhole, fI)
    /\ fFrac' = <<Head(fWhole)>> \o fFrac
    /\ fWhole' = Tail(fWhole)
    /\ fI' = fI + 1
    /\ UNCHANGED <<fIn, fPc, fOut>>

\* return f"{n:.1f} {units[i]}"
FmtReturn ==
    /\ fPc = "loop"
    /\ ~LoopGuard(fWhole, fI)
    /\ fOut' = [tenths |-> OneDecimal(fWhole, fFrac), unit |-> units[fI + 1]]
    /\ fPc' = "done"
    /\ UNCHANGED <<fIn, fWhole, fFrac, fI>>

\* ------------------------------------- security_script.py: sudoers_manage
\* Option 2 of the sudoers menu for one user: backup_file(dest), then
\* Path(dest).write_text(entry), then visudo -cf dest, then the report.

MaxClock == 2
MaxEdits == 2

\* entry = f"{user} ALL=(ALL) {'NOPASSWD:' if nop else ''}ALL\n"
EntryLine(nop) ==
    IF nop THEN "USER ALL=(ALL) NOPASSWD:ALL" ELSE "USER ALL=(ALL) ALL"

\* what the rule file may hold when the menu opens: nothing, or a rule put
\* there by other means
InitialRules == {None, Some("hand-written rule")}

\* mutant of copy2: the backup path is returned but nothing is copied
copy2_nothing(bk, ts, text) == bk

\* shutil.copy2(p, bkp) with bkp = f"{path}.bak-{ts}": the file of that
\* timestamp now holds the text of p (an older one of the same second is
\* replaced)
copy2(bk, ts, text) == [bk EXCEPT ![ts] = Some(text)]

\* what run(["visudo", "-cf", dest]) can return: the exit code, or None
\* when the binary is not found
VisudoResults == {None, Some(0), Some(1)}

SudoIdle ==
    /\ dest = None
    /\ backups = <<>>
    /\ now = 0
    /\ sPc = "idle"
    /\ entry = None
    /\ bkp = None
    /\ rc = None
    /\ said = ""
    /\ edits = 0
    /\ before = None

SudoInit ==
    /\ dest \in InitialRules
    /\ backups = [ts \in 0..MaxClock |-> None]
    /\ now = 0
    /\ sPc = "menu"
    /\ entry = None
    /\ bkp = None
    /\ rc = None
    /\ said = ""
    /\ edits = 0
    /\ before = None

\* time passes (the timestamp of backup_file has a resolution of 1 s)
SudoTick ==
    /\ sPc \notin {"idle", "left", "raised"}
    /\ now < MaxClock
    /\ now' = now + 1
    /\ UNCHANGED <<dest, backups, sPc, entry, bkp, rc, said, edits, before>>

\* op == "2": the user and NOPASSWD are read, entry is built, the
\* directory is made
SudoOption2 ==
    /\ sPc = "menu"
    /\ edits < MaxEdits
    /\ \E nop \in BOOLEAN : entry' = Some(EntryLine(nop))
    /\ edits' = edits + 1
    /\ before' = dest
    /\ bkp' = None
    /\ rc' = None
    /\ sPc' = "backup_file"
    /\ UNCHANGED <<dest, backups, now, said>>

\* bkp = backup_file(dest): None when dest does not exist, else the copy
\* is made and its path returned; copy2 may also raise OSError, leaving no
\* copy or a partial one, and nothing in sudoers_manage catches it
SudoBackup ==
    /\ sPc = "backup_file"
    /\ IF dest = None
       THEN /\ bkp' = None
            /\ sPc' = "write_text"
            /\ UNCHANGED <<backups, said>>
       ELSE \/ /\ backups' = copy2(backups, now, dest.v)
               /\ bkp' = Some(now)
               /\ said' = "Backup"
               /\ sPc' = "write_text"
            \/ /\ backups' \in {backups, [backups EXCEPT ![now] = Some("")]}
               /\ sPc' = "raised"
               /\ UNCHANGED <<bkp, said>>
    /\ UNCHANGED <<dest, now, entry, rc, edits, before>>

\* Path(dest).write_text(entry): the file is opened for writing (truncated)
\* and the rule written; OSError at the open leaves the file as it was,
\* OSError at the write leaves it empty
SudoWrite ==
    /\ sPc = "write_text"
    /\ \/ /\ dest' = entry
          /\ sPc' = "visudo"
       \/ /\ dest' \in {dest, Some("")}
          /\ sPc' = "raised"
    /\ UNCHANGED <<backups, now, entry, bkp, rc, said, edits, before>>

\* rc = run(["visudo", "-cf", dest])
SudoVisudo ==
    /\ sPc = "visudo"
    /\ rc' \in VisudoResults
    /\ sPc' = "report"
    /\ UNCHANGED <<dest, backups, now, entry, bkp, said, edits, before>>

\* if rc == 0: print(... validada) else: print("Error de sintaxis ...");
\* both branches only print
SudoReport ==
    /\ sPc = "report"
    /\ said' = IF rc = Some(0) THEN "validada" ELSE "Error de sintaxis"
    /\ sPc' = "menu"
    /\ UNCHANGED <<dest, backups, now, entry, bkp, rc, edits, before>>

\* options 1 and 3 (usermod, visudo -c): no file of sudoers.d is written
SudoOtherOption ==
    /\ sPc = "menu"
    /\ said' \in {"agregado al grupo", "visudo -c exit code"}
    /\ UNCHANGED <<dest, backups, now, sPc, entry, bkp, rc, edits, before>>

\* option 4: break
SudoLeave ==
    /\ sPc = "menu"
    /\ sPc' = "left"
    /\ UNCHANGED <<dest, backups, now, entry, bkp, rc, said, edits, before>>

\* ------------------------------------------------------- specifications
\* top_processes alone
InitTop == TopInit /\ GpuIdle /\ MainIdle /\ DisksIdle /\ TableIdle /\ JsonIdle
    /\ FmtIdle /\ SudoIdle

NextTop ==
    \/ TopStart /\ UNCHANGED <<varsGpu, varsMain, varsDisks, varsTable, varsJson, varsFmt, varsSudo>>
    \/ Pass1Skip /\ UNCHANGED <<varsGpu, varsMain, varsDisks, varsTable, varsJson, varsFmt, varsSudo>>
    \/ Pass1Read /\ UNCHANGED <<varsGpu, varsMain, varsDisks, varsTable, varsJson, varsFmt, varsSudo>>
    \/ Settle /\ UNCHANGED <<varsGpu, varsMain, varsDisks, varsTable, varsJson, varsFmt, varsSudo>>
    \/ Pass2Skip /\ UNCHANGED <<varsGpu, varsMain, varsDisks, varsTable, varsJson, varsFmt, varsSudo>>
    \/ Pass2Read /\ UNCHANGED <<varsGpu, varsMain, varsDisks, varsTable, varsJson, varsFmt, varsSudo>>
    \/ SortAndReturn /\ UNCHANGED <<varsGpu, varsMain, varsDisks, varsTable, varsJson, varsFmt, varsSudo>>
    \/ ProcExit /\ UNCHANGED <<varsGpu, varsMain, varsDisks, varsTable, varsJson, varsFmt, varsSudo>>
    \/ ProcSpawn /\ UNCHANGED <<varsGpu, varsMain, varsDisks, varsTable, varsJson, varsFmt, varsSudo>>

SpecTop == InitTop /\ [][NextTop]_vars

\* get_gpu_info alone
InitGpu == GpuInit /\ TopIdle /\ MainIdle /\ DisksIdle /\ TableIdle /\ JsonIdle
    /\ FmtIdle /\ SudoIdle

NextGpu ==
    \/ GpuWhich /\ UNCHANGED <<varsTop, varsMain, varsDisks, varsTable, varsJson, varsFmt, varsSudo>>
    \/ GpuRun /\ UNCHANGED <<varsTop, varsMain, varsDisks, varsTable, varsJson, varsFmt, varsSudo>>
    \/ GpuParseLine /\ UNCHANGED <<varsTop, varsMain, varsDisks, varsTable, varsJson, varsFmt, varsSudo>>
    \/ GpuReturnNvidia /\ UNCHANGED <<varsTop, varsMain, varsDisks, varsTable, varsJson, varsFmt, varsSudo>>
    \/ GpuFallback /\ UNCHANGED <<varsTop, varsMain, varsDisks, varsTable, varsJson, varsFmt, varsSudo>>
    \/ GpuAbsent /\ UNCHANGED <<varsTop, varsMain, varsDisks, varsTable, varsJson, varsFmt, varsSudo>>

SpecGpu == InitGpu /\ [][NextGpu]_vars

\* main, with collect_metrics and the exporters as single steps
Init == MainInit /\ TopIdle /\ GpuIdle /\ DisksIdle /\ TableIdle /\ JsonIdle
    /\ FmtIdle /\ SudoIdle

Next ==
    \/ ImportPsutil /\ UNCHANGED <<varsTop, varsGpu, varsDisks, varsTable, varsJson, varsFmt, varsSudo>>
    \/ Start /\ UNCHANGED <<varsTop, varsGpu, varsDisks, varsTable, varsJson, varsFmt, varsSudo>>
    \/ Collect /\ UNCHANGED <<varsTop, varsGpu, varsDisks, varsTable, varsJson, varsFmt, varsSudo>>
    \/ Assemble /\ UNCHANGED <<varsTop, varsGpu, varsDisks, varsTable, varsJson, varsFmt, varsSudo>>
    \/ CollectReturn /\ UNCHANGED <<varsTop, varsGpu, varsDisks, varsTable, varsJson, varsFmt, varsSudo>>
    \/ PrintTable /\ UNCHANGED <<varsTop, varsGpu, varsDisks, varsTable, varsJson, varsFmt, varsSudo>>
    \/ JsonOpen /\ UNCHANGED <<varsTop, varsGpu, varsDisks, varsTable, varsJson, varsFmt, varsSudo>>
    \/ JsonDump /\ UNCHANGED <<varsTop, varsGpu, varsDisks, varsTable, varsJson, varsFmt, varsSudo>>
    \/ CsvOpen /\ UNCHANGED <<varsTop, varsGpu, varsDisks, varsTable, varsJson, varsFmt, varsSudo>>
    \/ CsvHeader /\ UNCHANGED <<varsTop, varsGpu, varsDisks, varsTable, varsJson, varsFmt, varsSudo>>
    \/ CsvRow /\ UNCHANGED <<varsTop, varsGpu, varsDisks, varsTable, varsJson, varsFmt, varsSudo>>
    \/ Sleep /\ UNCHANGED <<varsTop, varsGpu, varsDisks, varsTable, varsJson, varsFmt, varsSudo>>
    \/ Interrupt /\ UNCHANGED <<varsTop, varsGpu, varsDisks, varsTable, varsJson, varsFmt, varsSudo>>

Spec == Init /\ [][Next]_vars

\* A running interpreter goes on executing statements: a step that can
\* be taken is taken.
FairSpec == Spec /\ WF_vars(Next)

InitDisks == DisksInit /\ TopIdle /\ GpuIdle /\ MainIdle /\ TableIdle /\ JsonIdle
    /\ FmtIdle /\ SudoIdle

NextDisks ==
    \/ DisksEnumerate /\ UNCHANGED <<varsTop, varsGpu, varsMain, varsTable, varsJson, varsFmt, varsSudo>>
    \/ DisksUsage /\ UNCHANGED <<varsTop, varsGpu, varsMain, varsTable, varsJson, varsFmt, varsSudo>>
    \/ DisksReturn /\ UNCHANGED <<varsTop, varsGpu, varsMain, varsTable, varsJson, varsFmt, varsSudo>>

SpecDisks == InitDisks /\ [][NextDisks]_vars

InitTable == TableInit /\ TopIdle /\ GpuIdle /\ MainIdle /\ DisksIdle /\ JsonIdle
    /\ FmtIdle /\ SudoIdle

NextTable ==
    \/ TablePrint /\ UNCHANGED <<varsTop, varsGpu, varsMain, varsDisks, varsJson, varsFmt, varsSudo>>
    \/ TableOmit /\ UNCHANGED <<varsTop, varsGpu, varsMain, varsDisks, varsJson, varsFmt, varsSudo>>
    \/ TableRow /\ UNCHANGED <<varsTop, varsGpu, varsMain, varsDisks, varsJson, varsFmt, varsSudo>>
    \/ TableEnd /\ UNCHANGED <<varsTop, varsGpu, varsMain, varsDisks, varsJson, varsFmt, varsSudo>>

SpecTable == InitTable /\ [][NextTable]_vars

InitJson == JsonInit /\ TopIdle /\ GpuIdle /\ MainIdle /\ DisksIdle /\ TableIdle
    /\ FmtIdle /\ SudoIdle

NextJson ==
    \/ JsonCollect /\ UNCHANGED <<varsTop, varsGpu, varsMain, varsDisks, varsTable, varsFmt, varsSudo>>
    \/ WriteJsonOpen /\ UNCHANGED <<varsTop, varsGpu, varsMain, varsDisks, varsTable, varsFmt, varsSudo>>
    \/ WriteJsonDump /\ UNCHANGED <<varsTop, varsGpu, varsMain, varsDisks, varsTable, varsFmt, varsSudo>>
    \/ JsonNextTick /\ UNCHANGED <<varsTop, varsGpu, varsMain, varsDisks, varsTable, varsFmt, varsSudo>>

SpecJson == InitJson /\ [][NextJson]_vars

InitFmt ==
    /\ FmtInit
    /\ TopIdle /\ GpuIdle /\ MainIdle /\ DisksIdle /\ TableIdle /\ JsonIdle
    /\ SudoIdle

NextFmt ==
    \/ FmtAbsent /\ UNCHANGED <<varsTop, varsGpu, varsMain, varsDisks, varsTable, varsJson, varsSudo>>
    \/ FmtEnter /\ UNCHANGED <<varsTop, varsGpu, varsMain, varsDisks, varsTable, varsJson, varsSudo>>
    \/ FmtDivide /\ UNCHANGED <<varsTop, varsGpu, varsMain, varsDisks, varsTable, varsJson, varsSudo>>
    \/ FmtReturn /\ UNCHANGED <<varsTop, varsGpu, varsMain, varsDisks, varsTable, varsJson, varsSudo>>

SpecFmt == InitFmt /\ [][NextFmt]_vars

\* sudoers_manage alone
InitSudo ==
    /\ SudoInit
    /\ TopIdle /\ GpuIdle /\ MainIdle /\ DisksIdle /\ TableIdle /\ JsonIdle
    /\ FmtIdle

NextSudo ==
    \/ SudoTick /\ UNCHANGED <<varsTop, varsGpu, varsMain, varsDisks, varsTable, varsJson, varsFmt>>
    \/ SudoOption2 /\ UNCHANGED <<varsTop, varsGpu, varsMain, varsDisks, varsTable, varsJson, varsFmt>>
    \/ SudoBackup /\ UNCHANGED <<varsTop, varsGpu, varsMain, varsDisks, varsTable, varsJson, varsFmt>>
    \/ SudoWrite /\ UNCHANGED <<varsTop, varsGpu, varsMain, varsDisks, varsTable, varsJson, varsFmt>>
    \/ SudoVisudo /\ UNCHANGED <<varsTop, varsGpu, varsMain, varsDisks, varsTable, varsJson, varsFmt>>
    \/ SudoReport /\ UNCHANGED <<varsTop, varsGpu, varsMain, varsDisks, varsTable, varsJson, varsFmt>>
    \/ SudoOtherOption /\ UNCHANGED <<varsTop, varsGpu, varsMain, varsDisks, varsTable, varsJson, varsFmt>>
    \/ SudoLeave /\ UNCHANGED <<varsTop, varsGpu, varsMain, varsDisks, varsTable, varsJson, varsFmt>>

SpecSudo == InitSudo /\ [][NextSudo]_vars

\* ----------------------------------------------------------------- claims
Range(s) == {s[i] : i \in 1..Len(s)}

\* r is non-increasing by the pair (cpu_percent, rss_bytes)
IsSortedDesc(r) ==
    \A i \in 1..(Len(r) - 1) :
        \/ r[i].cpu_percent > r[i + 1].cpu_percent
        \/ /\ r[i].cpu_percent = r[i + 1].cpu_percent
           /\ r[i].rss_bytes >= r[i + 1].rss_bytes

\* C1: the list top_processes(n) returns is sorted non-increasing by
\* (cpu_percent, rss_bytes), cpu_percent first and rss_bytes the tie-break,
\* and has at most n entries; called by collect_metrics (n = 10) it has at
\* most 10 entries.
C1_SortedAndBounded ==
    tpPc = "done" =>
        /\ IsSortedDesc(result)
        /\ Len(result) <= n
        /\ (n = TopN => Len(result) <= 10)

\* C1 witness: a table of more than 10 processes with different CPU
\* readings has been ranked and cut to 10.
C1_Witness ==
    /\ tpPc = "done"
    /\ Len(procs) > TopN
    /\ Len(result) = TopN
    /\ result[1].cpu_percent > result[TopN].cpu_percent

\* C2 (as claimed): no error is raised, and a process the first pass
\* enumerated that the second pass no longer enumerates is not in the
\* returned list.
C2_ExitedProcessDropped ==
    /\ tpPc # "raised"
    /\ tpPc = "done" => PidsOf(result) \cap (seen1 \ seen2) = {}

\* C3 (as claimed): no per-process read error escapes, a process whose read
\* failed in either pass is not in the returned list, and every other
\* enumerated process is still ranked.
C3_FailedReadExcluded ==
    /\ tpPc # "raised"
    /\ tpPc = "done" =>
        /\ PidsOf(result) \cap (failed1 \cup failed2) = {}
        /\ (seen1 \ (failed1 \cup failed2)) \subseteq PidsOf(procs)

\* the primary backend is not on the path, or its attempt raised
PrimaryUnavailable == ~nvidiaPath \/ "nvidia-smi" \in errors

\* C4: get_gpu_info never raises; when nvidia-smi is missing or fails it
\* goes on to GPUtil if that is available and otherwise returns None; a
\* returned report names in backend the backend its records come from.
C4_FallbackNeverRaises ==
    /\ gpuPc # "raised"
    /\ gpuPc = "done" =>
        /\ (PrimaryUnavailable /\ GPUtil) => "GPUtil" \in Range(attempts)
        /\ (PrimaryUnavailable /\ ~GPUtil) => gpuResult = None
        /\ gpuResult # None =>
            /\ gpuResult.backend \in {"nvidia-smi", "GPUtil"}
            /\ gpuResult.backend = "nvidia-smi" =>
                /\ "nvidia-smi" \notin errors
                /\ \A r \in Range(gpuResult.gpus) :
                     \E l \in Range(stdout) : Len(l) >= 7 /\ r = NvidiaRecord(l)
            /\ gpuResult.backend = "GPUtil" =>
                /\ devices # None
                /\ gpuResult.gpus =
                     [i \in 1..Len(devices.list) |->
                        GPUtilRecord(devices.list[i])]

\* C4 witness: nvidia-smi was found and failed, and GPUtil supplied the
\* report.
C4_Witness ==
    /\ gpuPc = "done"
    /\ nvidiaPath
    /\ "nvidia-smi" \in errors
    /\ gpuResult # None
    /\ gpuResult.backend = "GPUtil"
    /\ Len(gpuResult.gpus) >= 1

\* C5 (as claimed): within one call at most one backend path is attempted.
C5_AtMostOnePath == Len(attempts) <= 1

\* C5 (amended): the backends are tried in the order nvidia-smi, GPUtil,
\* each at most once; GPUtil is tried only when nvidia-smi is missing or
\* its attempt failed; the report returned is that of the last backend
\* tried, the first that succeeded.
C5_FixedOrderFirstSuccess ==
    /\ attempts \in {<<>>, <<"nvidia-smi">>, <<"GPUtil">>,
                     <<"nvidia-smi", "GPUtil">>}
    /\ "GPUtil" \in Range(attempts) => PrimaryUnavailable
    /\ (nvidiaPath /\ gpuPc \notin {"which", "run"}) =>
            (attempts # <<>> /\ attempts[1] = "nvidia-smi")
    /\ gpuPc = "done" =>
        IF gpuResult = None
        THEN Range(attempts) \subseteq errors
        ELSE /\ attempts # <<>>
             /\ gpuResult.backend = attempts[Len(attempts)]
             /\ gpuResult.backend \notin errors
             /\ \A i \in 1..(Len(attempts) - 1) : attempts[i] \in errors

\* C5 witness: both backends were tried, in order, and the second supplied
\* the report.
C5_Witness ==
    /\ gpuPc = "done"
    /\ attempts = <<"nvidia-smi", "GPUtil">>
    /\ gpuResult # None
    /\ gpuResult.backend = "GPUtil"

\* a line that yields a record: seven fields or more, numeric where needed
WellFormed(parts) == Len(parts) >= 7 /\ Parses(parts)

\* the records of the well-formed lines of out, in output order
RECURSIVE RecordsOf(_)
RecordsOf(out) ==
    IF out = <<>> THEN <<>>
    ELSE (IF WellFormed(Head(out)) THEN <<NvidiaRecord(Head(out))>> ELSE <<>>)
         \o RecordsOf(Tail(out))

\* C6 (as claimed): when nvidia-smi ran and printed well-formed and
\* malformed lines, the report is the primary backend's and holds one
\* record per well-formed line, in output order.
C6_OnlyMalformedSkipped ==
    (/\ gpuPc = "done"
     /\ lineIdx > 0
     /\ \E l \in Range(stdout) : WellFormed(l)
     /\ \E l \in Range(stdout) : ~WellFormed(l))
    => /\ gpuResult # None
       /\ gpuResult.backend = "nvidia-smi"
       /\ gpuResult.gpus = RecordsOf(stdout)

\* C7 (as claimed): when no backend reports a device the result is None,
\* never a report with an empty device list.
C7_NoEmptyReport ==
    (gpuPc = "done" /\ gpuResult # None) => gpuResult.gpus # <<>>

\* C8: with --once, main calls collect_metrics once, gives that snapshot
\* once to each configured exporter and to no other, and returns without
\* sleeping or starting a second tick.
C8_OneShot ==
    once =>
        /\ tick <= 1
        /\ sleeps = <<>>
        /\ Len(printed) <= 1 /\ nJson <= 1 /\ Len(CsvRows) <= 1
        /\ quiet => printed = <<>>
        /\ ~jsonArg => (nJson = 0 /\ jsonFile = None)
        /\ ~csvArg => CsvRows = <<>>
        /\ pc = "returned" =>
            /\ tick = 1
            /\ metrics = 1
            /\ ~quiet => printed = <<1>>
            /\ jsonArg => (nJson = 1 /\ jsonFile = [snap |-> 1, whole |-> TRUE])
            /\ csvArg => CsvRows = <<RowLine(1)>>

\* C8 witness: a --once run with the three exporters and an interval
\* given has returned.
C8_Witness ==
    /\ once
    /\ pc = "returned"
    /\ ~quiet /\ jsonArg /\ csvArg
    /\ argInterval > 0

\* C9: in continuous mode the interval slept is args.interval when that is
\* a positive integer and 5 otherwise (0, the value of an unset option,
\* gives 5).
C9_EffectiveInterval ==
    (~once /\ imported = "ok" /\ pc \notin {"idle", "start"}) =>
        LET eff == IF argInterval >= 1 THEN argInterval ELSE 5
        IN  /\ interval = eff
            /\ \A i \in 1..Len(sleeps) : sleeps[i] = eff

\* C9 witness: interval 0 was given and the loop has slept 5 seconds.
C9_Witness ==
    /\ ~once
    /\ argInterval = 0
    /\ sleeps # <<>>
    /\ sleeps[1] = 5

\* C10 (as claimed): an interrupt that arrives during collection or during
\* an exporter does not cut the tick short: when the loop has stopped, the
\* tick's collection and each enabled exporter have completed.
C10_TickRunsToCompletion ==
    (pc = "stopped" /\ stoppedAt \in Running \ {"sleep"}) =>
        /\ metrics = tick
        /\ ~quiet => Len(printed) = tick
        /\ jsonArg => nJson = tick
        /\ csvArg => Len(CsvRows) = tick

\* a run has ended: main returned, or an exception left it
Ended == pc \in {"returned", "stopped", "crashed", "exited"}

\* the tick's exporters have all run
TickDone == pc \in {"sleep", "returned"}

\* C11 (as claimed): after a run has ended, however it ended, the JSON
\* file holds the whole serialization of one snapshot.
C11_NoTornJson == (Ended /\ jsonFile # None) => jsonFile.whole

\* C12: in continuous mode an interrupt raised anywhere in the loop ends
\* the run in the stopped state: "Stopped." is the last thing written to
\* stderr, the exit status is 0, and no tick, export or sleep follows.
C12_InterruptStops ==
    /\ [](( ~once /\ stoppedAt # "none") =>
            /\ pc = "stopped"
            /\ stderr # <<>>
            /\ stderr[Len(stderr)] = "Stopped."
            /\ ExitCode = 0)
    /\ [][pc = "stopped" =>
            UNCHANGED <<pc, tick, metrics, printed, jsonFile, nJson, csvFile,
                        sleeps, stderr>>]_vars

\* C12 witness: the loop was interrupted inside write_json in its second
\* tick and has stopped.
C12_Witness ==
    /\ ~once
    /\ pc = "stopped"
    /\ stoppedAt = "json_dump"
    /\ tick = 2

ExportPcs == {"print_table", "json_open", "json_dump", "csv_open",
              "csv_header", "csv_row"}

\* C13: while an exporter runs, metrics is the snapshot of the current
\* tick with its eleven entries evaluated; the table, the JSON file and the
\* CSV row of tick i all come from snapshot i.
C13_AssembledBeforeExport ==
    /\ pc \in ExportPcs =>
        /\ metrics = tick
        /\ KeysOf(assembled) = SnapshotKeys
    /\ printed = [i \in 1..Len(printed) |-> i]
    /\ Len(printed) <= metrics
    /\ CsvRows = [i \in 1..Len(CsvRows) |-> RowLine(i)]
    /\ Len(CsvRows) <= metrics
    /\ jsonFile # None =>
        /\ jsonFile.snap <= metrics
        /\ jsonFile.snap = IF jsonFile.whole THEN nJson ELSE nJson + 1

\* C13 witness: the second tick has reached its last exporter after the
\* table and the JSON file were given the second snapshot.
C13_Witness ==
    /\ pc = "csv_row"
    /\ tick = 2
    /\ printed = <<1, 2>>
    /\ jsonFile = [snap |-> 2, whole |-> TRUE]

\* C14: the header row is written only when the path did not exist before
\* the run: after k >= 1 ticks on a new path the file is the header and
\* the k rows in tick order; on a path that existed, the old content and
\* the rows, and no header.
C14_HeaderOnce ==
    LET rows == [i \in 1..Len(CsvRows) |-> RowLine(i)] IN
    /\ CsvRows = rows
    /\ csvAtStart.present => csvFile.lines = csvAtStart.lines \o rows
    /\ ~csvAtStart.present =>
         (csvFile.lines = <<>> \/ csvFile.lines = <<HeaderLine>> \o rows)
    /\ (csvArg /\ TickDone) =>
        /\ tick >= 1
        /\ Len(CsvRows) = tick
        /\ ~csvAtStart.present => csvFile.lines = <<HeaderLine>> \o rows

\* C14 witness: two ticks on a path that did not exist.
C14_Witness ==
    /\ ~csvAtStart.present
    /\ pc = "sleep"
    /\ tick = 2
    /\ csvFile.lines = <<HeaderLine, RowLine(1), RowLine(2)>>

IsPrefix(a, b) == Len(a) <= Len(b) /\ a = SubSeq(b, 1, Len(a))

\* C15: append_csv only appends: every step leaves the previous content
\* of the file as a prefix of the new content, the step that writes the row
\* adds the row of the current snapshot and nothing else, and each
\* completed tick has added one row.
C15_AppendOnly ==
    /\ [][/\ IsPrefix(csvFile.lines, csvFile'.lines)
          /\ csvFile.present => csvFile'.present
          /\ (pc = "csv_row" /\ pc' \notin {"crashed", "stopped"}) =>
                csvFile'.lines = Append(csvFile.lines, RowLine(tick))]_vars
    /\ []((csvArg /\ TickDone) => Len(CsvRows) = tick)

\* C15 witness: two rows were appended to a file that had content.
C15_Witness ==
    /\ csvAtStart = OldFile
    /\ pc = "sleep"
    /\ csvFile.lines = OldFile.lines \o <<RowLine(1), RowLine(2)>>

\* C17 (as claimed): no error of an optional domain's query escapes its
\* collector, so none ends collect_metrics.
C17_OptionalDomainNeverAborts == crashedIn \notin OptionalDomains

\* C20: the three sinks are enabled one by one: a disabled sink is never
\* touched, and a completed tick has written once to each enabled sink.
C20_SinksIndependent ==
    /\ quiet => printed = <<>>
    /\ ~jsonArg => (jsonFile = None /\ nJson = 0)
    /\ ~csvArg => csvFile = csvAtStart
    /\ TickDone =>
        /\ ~quiet => Len(printed) = tick
        /\ jsonArg => (nJson = tick /\ jsonFile = [snap |-> tick, whole |-> TRUE])
        /\ csvArg => Len(CsvRows) = tick

\* C20 witness: a tick with the table and the CSV file enabled and the
\* JSON file disabled has completed.
C20_Witness ==
    /\ pc = "sleep"
    /\ ~quiet /\ ~jsonArg /\ csvArg
    /\ tick = 1

\* C18: get_disks_info lists one entry per enumerated partition, in
\* enumeration order, each with the device, mountpoint and filesystem type
\* of its partition; a partition whose usage query raised has total, used
\* and percent None, and every other partition has its own usage numbers.
C18_FailedPartitionKept ==
    /\ dPc = "loop" => Len(partitions) = dIdx - 1
    /\ dPc = "done" =>
        /\ dResult # None
        /\ Len(dResult.partitions) = Len(mounts)
        /\ \A i \in 1..Len(mounts) :
             LET e == dResult.partitions[i]
                 p == mounts[i]
                 u == usages[i]
             IN  /\ e.device = p.device
                 /\ e.mountpoint = p.mountpoint
                 /\ e.fstype = p.fstype
                 /\ u = Raises =>
                      (e.total = None /\ e.used = None /\ e.percent = None)
                 /\ u # Raises =>
                      /\ e.total = [v |-> u.total]
                      /\ e.used = [v |-> u.used]
                      /\ e.percent = [v |-> u.percent]

\* C18 witness: of two partitions the first one's usage query raised and
\* the second one's did not, and get_disks_info has returned.
C18_Witness ==
    /\ dPc = "done"
    /\ Len(mounts) = 2
    /\ usages[1] = Raises
    /\ usages[2] # Raises

\* C19 (as claimed): print_table raises for no snapshot collect_metrics
\* can produce; an absent optional field, a process's name included, is
\* shown as a placeholder.
C19_TableNeverRaises == tPc # "raised"

\* C16: after a tick's write_json the file holds one document, that
\* tick's snapshot, whatever the file held before, and json.load of the
\* file gives a value equal to the snapshot that was written.
C16_JsonRoundTrip ==
    jPc = "written" =>
        /\ jFile # None
        /\ Len(jFile.docs) = 1
        /\ json_load(jFile) = jSnap

\* C16 witness: write_json has replaced an earlier tick's snapshot with a
\* different one whose battery is None and whose process list has a
\* None name.
C16_Witness ==
    /\ jPc = "written"
    /\ jBefore # None
    /\ Len(jBefore.docs) = 1
    /\ Is(jBefore.docs[1], "jkeys")
    /\ jBefore.docs[1] # json_dump(jSnap)
    /\ jSnap.vals[7] = None
    /\ jSnap.vals[11] = PyList(<<ProcDict(None)>>)

\* C21: when psutil cannot be imported the program writes a diagnostic
\* to stderr and ends with a non-zero exit status, and nothing was
\* collected, exported or slept before.
C21_NoProviderNoRun ==
    imported \notin {"pending", "ok"} =>
        /\ pc \in {"exited", "crashed"}
        /\ ExitCode # 0
        /\ stderr # <<>>
        /\ imported = "ImportError" => stderr = <<ImportMessage("ImportError")>>
        /\ tick = 0
        /\ metrics = 0
        /\ assembled = <<>>
        /\ printed = <<>>
        /\ jsonFile = None
        /\ csvFile = csvAtStart
        /\ sleeps = <<>>

\* C21 witness: psutil is not installed and the program has exited.
C21_Witness ==
    /\ imported = "ImportError"
    /\ pc = "exited"
    /\ jsonArg /\ csvArg /\ ~quiet

\* a + b + c for digit sequences a and b and a carry c
RECURSIVE BigAdd(_, _, _)
BigAdd(a, b, c) ==
    IF a = <<>> THEN BigAddSmall(b, c)
    ELSE IF b = <<>> THEN BigAddSmall(a, c)
    ELSE LET v == Head(a) + Head(b) + c
         IN  <<v % Step>> \o BigAdd(Tail(a), Tail(b), v \div Step)

\* a <= b for digit sequences without leading zeros
RECURSIVE BigLeq(_, _)
BigLeq(a, b) ==
    IF Len(a) # Len(b) THEN Len(a) < Len(b)
    ELSE IF a = <<>> THEN TRUE
    ELSE IF a[Len(a)] # b[Len(b)] THEN a[Len(a)] < b[Len(b)]
    ELSE BigLeq(SubSeq(a, 1, Len(a) - 1), SubSeq(b, 1, Len(b) - 1))

\* a * Step^k
Shift(a, k) == IF a = <<>> THEN <<>> ELSE [j \in 1..k |-> 0] \o a

\* C22: fmt_bytes(None) is "n/a"; for a byte count n the loop makes at
\* most four turns and the result is a number of tenths t and a unit of
\* scale S = 1024^k with |t/10 * S - n| <= S/20, where k is the largest of
\* 0..4 with 1024^k <= n (0 when n < 1024, 4 from 1024^4 up).
C22_FmtBytes ==
    /\ fI <= Len(units) - 1
    /\ Len(fFrac) = fI
    /\ (fPc = "done" /\ fIn = None) => fOut = [text |-> "n/a"]
    /\ (fPc = "done" /\ fIn # None) =>
        LET nB == fIn.bytes
            k == (CHOOSE j \in 1..Len(units) : units[j] = fOut.unit) - 1
            S == Shift(<<1>>, k)
            twice == Shift(BigMulSmall(fOut.tenths, 2, 0), k)
            exact == BigMulSmall(nB, 20, 0)
        IN  /\ \E j \in 1..Len(units) : units[j] = fOut.unit
            /\ k = 0 \/ BigLeq(S, nB)
            /\ k = Len(units) - 1 \/ ~BigLeq(Shift(<<1>>, k + 1), nB)
            /\ BigLeq(twice, BigAdd(exact, S, 0))
            /\ BigLeq(exact, BigAdd(twice, S, 0))

\* C22 witness: 1024^5 bytes are reported as "1024.0 TiB".
C22_Witness ==
    /\ fPc = "done"
    /\ fIn = [bytes |-> <<0, 0, 0, 0, 0, 1>>]
    /\ fOut = [tenths |-> <<0, 10>>, unit |-> "TiB"]

\* C23: every item of procs, and so every returned item, has the pid of
\* a process the first pass enumerated; the second-pass turn of a process
\* the first pass did not enumerate changes nothing in procs.
C23_CandidatesFromFirstPass ==
    /\ [](PidsOf(procs) \subseteq seen1 /\ PidsOf(result) \subseteq seen1)
    /\ [][\A p \in seen2' \ seen2 : p \notin seen1 => procs' = procs]_vars

\* C23 witness: top_processes has returned a list after its second pass
\* met a process the first pass had not enumerated.
C23_Witness ==
    /\ tpPc = "done"
    /\ seen2 \ seen1 # {}
    /\ result # <<>>

\* C24 (as claimed): every returned process that both passes enumerated
\* carries the second-pass cpu_percent and the second-pass rss_bytes.
C24_BothFromSecondPass ==
    tpPc = "done" =>
        \A i \in 1..Len(result) :
            result[i].pid \in seen1 \cap seen2 =>
                (result[i].pid \in cpu2 /\ result[i].pid \in rss2)

\* the place of a step inside one tick
Rank(p) ==
    CASE p = "collect" -> 0
      [] p = "assemble" -> 1
      [] p = "print_table" -> 2
      [] p = "json_open" -> 3
      [] p = "json_dump" -> 4
      [] p = "csv_open" -> 5
      [] p = "csv_header" -> 6
      [] p = "csv_row" -> 7
      [] OTHER -> 8

\* C25: in continuous mode the loop is left by an exception only; every
\* tick that no interrupt or failure cuts short is followed by the next
\* one; inside a tick the steps run in the order assemble, table, JSON,
\* CSV, sleep; the enabled exporters have run when the sleep starts; one
\* sleep of the interval separates two ticks; a tick starts only after the
\* sleep of the one before.
C25_LoopForever ==
    /\ [](~once => pc # "returned")
    /\ []((~once /\ pc \in Running) =>
            Len(sleeps) = IF pc = "collect" THEN tick ELSE tick - 1)
    /\ [](\A i \in 1..Len(sleeps) : sleeps[i] = interval)
    /\ []((~once /\ pc = "sleep") =>
            /\ metrics = tick
            /\ ~quiet => Len(printed) = tick
            /\ jsonArg => nJson = tick
            /\ csvArg => Len(CsvRows) = tick)
    /\ [][(~once /\ pc \in Running /\ pc' \in Running /\ pc' # pc) =>
            IF pc = "sleep" THEN pc' = "collect" ELSE Rank(pc') > Rank(pc)]_vars
    /\ [][tick' # tick =>
            (pc = "collect" /\ pc' = "assemble" /\ tick' = tick + 1)]_vars
    /\ \A k \in 1..(MaxTicks - 1) :
         (~once /\ tick = k /\ pc \in Running)
            ~> (tick = k + 1 \/ pc \in {"stopped", "crashed"})

\* C25 witness: the loop has started its second tick after one sleep.
C25_Witness ==
    /\ ~once
    /\ pc = "assemble"
    /\ tick = 2
    /\ Len(sleeps) = 1
    /\ stoppedAt = "none"

\* C26 (as claimed): a failure of write_json does not prevent the CSV
\* row of that tick: when the run has ended after a JSON write failure and
\* the CSV sink is enabled, the file has a row for every tick.
C26_ExportersIndependent ==
    (Ended /\ crashedIn \in {"json_open", "json_dump"} /\ csvArg) =>
        Len(CsvRows) = tick

\* C27: a run is single-sample or continuous and never both: a run that
\* returns normally is a --once run of exactly one tick, a run that sleeps
\* or is stopped by the operator's interrupt is a continuous one, and a
\* --once run never starts a second tick nor sleeps, whatever --interval
\* was given with it.
C27_ModesExclusive ==
    /\ once => (tick <= 1 /\ sleeps = <<>> /\ pc \notin {"sleep", "stopped"})
    /\ pc = "returned" => (once /\ tick = 1)
    /\ (pc \in {"sleep", "stopped"} \/ sleeps # <<>>) => ~once

\* C27 witness: a --once run given a positive --interval has returned after
\* its one tick without sleeping.
C27_Witness ==
    /\ once /\ argInterval >= 1
    /\ pc = "returned" /\ tick = 1 /\ sleeps = <<>>

\* C28: the snapshot (the dict under construction and the binding of
\* metrics) changes only inside collect_metrics: no step of print_table,
\* write_json, append_csv, time.sleep or an interrupt changes it, and every
\* tick starts its snapshot from a new empty dict, not from the previous
\* tick's one.
C28_SnapshotNotMutated ==
    [][/\ pc \notin {"collect", "assemble"} => UNCHANGED <<assembled, metrics>>
       /\ tick' # tick => (assembled' = <<>> /\ metrics' = metrics)
       /\ metrics' # metrics => (metrics' = tick /\ assembled' = assembled)]_vars

\* C28 witness: the second tick's snapshot has gone through the three
\* exporters after the first tick's one had been exported.
C28_Witness ==
    /\ ~once /\ ~quiet /\ jsonArg /\ csvArg
    /\ tick = 2 /\ metrics = 2 /\ pc = "sleep"
    /\ printed = <<1, 2>>

\* the names of the sections printed so far, in the order of printing
PrintedSections ==
    LET secs == SelectSeq(rendered, LAMBDA r : r.section # "row")
    IN  [i \in 1..Len(secs) |-> secs[i].section]

\* the sections the claim expects for snapshot m: the fixed order, less the
\* battery, temperatures and GPU sections whose field is None
ExpectedSections(m) ==
    SelectSeq(<<"os", "cpu", "memory", "disks", "network", "battery",
                "temperatures", "gpus", "top_processes">>,
              LAMBDA sec : sec \in {"battery", "temperatures", "gpus"}
                               => m[sec] # None)

\* C29: what print_table has printed is at every moment a prefix of the
\* section list OS/time, CPU, memory, disks, network, battery,
\* temperatures, GPU, top processes with exactly the battery, temperatures
\* and GPU sections of a None field left out; once the process rows are
\* reached (and when print_table has ended, normally or not) it is that
\* whole list, and the process rows come after every section heading.
C29_SectionOrder ==
    tPc # "idle" =>
        /\ IsPrefix(PrintedSections, ExpectedSections(tSnap))
        /\ tPc \in {"rows", "done", "raised"} =>
               PrintedSections = ExpectedSections(tSnap)
        /\ \A i, j \in 1..Len(rendered) :
               (rendered[i].section = "row" /\ rendered[j].section # "row")
                   => j < i

\* C29 witness: print_table has finished a snapshot that has temperatures
\* and process rows but neither battery nor GPU report.
C29_Witness ==
    /\ tPc = "done"
    /\ tSnap.battery = None /\ tSnap.temperatures # None /\ tSnap.gpus = None
    /\ PrintedSections = <<"os", "cpu", "memory", "disks", "network",
                           "temperatures", "top_processes">>
    /\ Len(rendered) > 7

\* C30: in option 2 the rule file changes only at write_text, and when it
\* existed its pre-edit text is by then in the backup that backup_file
\* returned; visudo runs on the file that already holds the new rule; and
\* neither visudo nor the report that follows it changes the rule file or
\* any backup, so a rule that failed validation is still the content of the
\* file when the menu comes back.
C30_SudoersEdit ==
    /\ [](/\ sPc \in {"write_text", "visudo", "report"} =>
               IF before = None THEN bkp = None
               ELSE bkp # None /\ backups[bkp.v] = before
          /\ sPc \in {"visudo", "report"} => dest = entry
          /\ (sPc = "menu" /\ said = "Error de sintaxis") => dest = entry)
    /\ [][/\ dest' # dest =>
                /\ sPc = "write_text"
                /\ dest # None => (bkp # None /\ backups[bkp.v] = dest)
          /\ sPc \in {"visudo", "report"} => UNCHANGED <<dest, backups>>]_vars

\* C30 witness: a second rule for the user failed validation; it is in
\* the file and the first rule is in the backup.
C30_Witness ==
    /\ sPc = "menu" /\ said = "Error de sintaxis" /\ rc = Some(1)
    /\ edits = 2
    /\ before = Some(EntryLine(FALSE)) /\ dest = Some(EntryLine(TRUE))
    /\ bkp # None /\ backups[bkp.v] = before

====
